---- MODULE Spec2Model ----
(***************************************************************************)
(* Model of geocodebatch.py: address normalisation, the Azure geocoding    *)
(* client with retry, the Census boundary lookup, the result cache, and    *)
(* the batch driver with its checkpoints.                                  *)
(*                                                                         *)
(* Python values are encoded as tagged records: None, the float NaN that   *)
(* pandas yields for an empty cell, strings (sequences of one-character    *)
(* strings) and numbers.  Dicts are TLA+ records/functions, so "the keys   *)
(* of a row" is DOMAIN row.                                                *)
(***************************************************************************)
EXTENDS Integers, Sequences, FiniteSets, TLC

VARIABLES
    addresses,      \* main: list of the address column (one entry per row)
    i,              \* main: number of rows whose loop body has started
    results,        \* main: results list
    cache,          \* module-level dict cache: key -> row
    pc,             \* control point of the run
    curAddr,        \* get_results: the address argument of the active call
    attempt,        \* _azure_search_address: loop variable attempt
    azResult,       \* get_results: value returned by _azure_search_address
    saved,          \* rows/input pairs written by the final save_results
    checkpoints,    \* sequence of checkpoint files written so far
    jsonErrIsReqExc,\* build: resp.json() failure is a requests.RequestException
    badShapes,      \* number of malformed 200 bodies served so far
    clientCalls,    \* history: key -> number of _azure_search_address calls
    calledKeys,     \* history: keys get_results has been called with
    firstStored,    \* history: key -> row stored by the first call storing it
    lastCall,       \* history: summary of the last finished get_results call
    reqLog,         \* history: provider responses seen by the active call
    sleeps,         \* history: delays (in hundredths of a second) of the active client call
    nIn,            \* normalisation harness: input string
    nOut,           \* normalisation harness: _normalize_address(nIn)
    nOut2,          \* normalisation harness: _normalize_address(nOut)
    nPc,            \* normalisation harness: number of applications done
    uBase,          \* suffix harness: an address without unit suffix
    uFull,          \* suffix harness: uBase, possibly upper-cased, with a unit suffix
    uKeyBase,       \* suffix harness: _normalize_address(uBase)
    uKeyFull,       \* suffix harness: _normalize_address(uFull)
    uPc             \* suffix harness: which keys have been computed

vars == <<addresses, i, results, cache, pc, curAddr, attempt, azResult, saved,
          checkpoints, jsonErrIsReqExc, badShapes, clientCalls, calledKeys, firstStored,
          lastCall, reqLog, sleeps, nIn, nOut, nOut2, nPc,
          uBase, uFull, uKeyBase, uKeyFull, uPc>>

mainVars == <<addresses, i, results, cache, pc, curAddr, attempt, azResult, saved,
              checkpoints, jsonErrIsReqExc, badShapes, clientCalls, calledKeys, firstStored,
              lastCall, reqLog, sleeps>>

unitVars == <<uBase, uFull, uKeyBase, uKeyFull, uPc>>

normVars == <<nIn, nOut, nOut2, nPc, uBase, uFull, uKeyBase, uKeyFull, uPc>>

(***************************************************************************)
(* Program constants                                                       *)
(***************************************************************************)
AZURE_MAX_RETRIES == 2
CHECKPOINT_EVERY == 1000
RATE_LIMIT_SLEEP == 12

(***************************************************************************)
(* Bounds of the model                                                     *)
(***************************************************************************)
MaxRows == 2
MaxLen == 8
MaxBadShapes == 2
MaxBaseLen == 4
FairRows == 1

(***************************************************************************)
(* Encoding of Python values                                               *)
(***************************************************************************)
None == [t |-> "None"]
NaN == [t |-> "float_nan"]
Str(s) == [t |-> "str", s |-> s]
Num(n) == [t |-> "num", n |-> n]
Dict(d) == [t |-> "dict", d |-> d]
List(l) == [t |-> "list", l |-> l]

\* a string the program only copies or compares, kept as one chunk
Text(w) == Str(<<w>>)

EmptyDict == Dict(<<>>)

\* str(x) for the values an address cell can hold
PyStr(x) ==
    IF x.t = "str" THEN x.s
    ELSE IF x.t = "float_nan" THEN <<"n", "a", "n">>
    ELSE <<"N", "o", "n", "e">>

(***************************************************************************)
(* Characters                                                              *)
(***************************************************************************)
UpperChars == <<"A","B","C","D","E","F","G","H","I","J","K","L","M",
                "N","O","P","Q","R","S","T","U","V","W","X","Y","Z">>
LowerChars == <<"a","b","c","d","e","f","g","h","i","j","k","l","m",
                "n","o","p","q","r","s","t","u","v","w","x","y","z">>
DigitChars == <<"0","1","2","3","4","5","6","7","8","9">>

Range(f) == {f[k] : k \in DOMAIN f}

\* regex class \s
IsSpace(c) == c \in {" ", "\t", "\n"}

\* regex class [\w\-]
IsTokenChar(c) == c \in Range(UpperChars) \cup Range(LowerChars) \cup Range(DigitChars) \cup {"_", "-"}

\* str.lower() on one character
LowerChar(c) ==
    IF c \in Range(UpperChars)
    THEN LowerChars[CHOOSE k \in DOMAIN UpperChars : UpperChars[k] = c]
    ELSE c

\* variant: no lower-casing
Lower_asIs(s) == s

\* str.lower()
Lower(s) == [k \in DOMAIN s |-> LowerChar(s[k])]

\* the alternatives of (Apt|Apartment|Unit|Suite|Ste|#), in order
UnitKeywords == <<
    <<"a","p","t">>,
    <<"a","p","a","r","t","m","e","n","t">>,
    <<"u","n","i","t">>,
    <<"s","u","i","t","e">>,
    <<"s","t","e">>,
    <<"#">> >>

(***************************************************************************)
(* _normalize_address                                                      *)
(***************************************************************************)
\* first index >= p whose character is not whitespace (Len(s)+1 if none)
RECURSIVE SkipSpace(_, _)
SkipSpace(s, p) ==
    IF p <= Len(s) /\ IsSpace(s[p]) THEN SkipSpace(s, p + 1) ELSE p

\* first index >= p whose character is not in [\w\-] (Len(s)+1 if none)
RECURSIVE SkipToken(_, _)
SkipToken(s, p) ==
    IF p <= Len(s) /\ IsTokenChar(s[p]) THEN SkipToken(s, p + 1) ELSE p

\* keyword kw occurs at index q of s, ignoring case
KeywordAt(s, q, kw) ==
    /\ q + Len(kw) - 1 <= Len(s)
    /\ \A k \in 1..Len(kw) : LowerChar(s[q + k - 1]) = kw[k]

\* index just after a match of \s+(Apt|...|#)\s*[\w\-]+ that starts at p, 0 if none
UnitMatchEnd(s, p) ==
    IF ~IsSpace(s[p]) THEN 0
    ELSE LET q == SkipSpace(s, p)
             alts == {a \in DOMAIN UnitKeywords : KeywordAt(s, q, UnitKeywords[a])}
         IN  IF alts = {} THEN 0
             ELSE LET a == CHOOSE x \in alts : \A y \in alts : x <= y
                      r == SkipSpace(s, q + Len(UnitKeywords[a]))
                      e == SkipToken(s, r)
                  IN  IF e > r THEN e ELSE 0

\* re.sub(unit pattern, '', s): leftmost non-overlapping matches removed, from p on
RECURSIVE StripUnitsFrom(_, _)
StripUnitsFrom(s, p) ==
    IF p > Len(s) THEN <<>>
    ELSE LET e == UnitMatchEnd(s, p)
         IN  IF e > 0 THEN StripUnitsFrom(s, e)
             ELSE <<s[p]>> \o StripUnitsFrom(s, p + 1)

\* re.sub(r'\s+', ' ', s), from p on
RECURSIVE CollapseFrom(_, _)
CollapseFrom(s, p) ==
    IF p > Len(s) THEN <<>>
    ELSE IF IsSpace(s[p]) THEN <<" ">> \o CollapseFrom(s, SkipSpace(s, p))
    ELSE <<s[p]>> \o CollapseFrom(s, p + 1)

\* str.strip()
RECURSIVE RStrip(_)
RStrip(s) ==
    IF Len(s) > 0 /\ IsSpace(s[Len(s)]) THEN RStrip(SubSeq(s, 1, Len(s) - 1)) ELSE s

Strip(s) == LET p == SkipSpace(s, 1) IN RStrip(SubSeq(s, p, Len(s)))

\* _normalize_address on a Python value; the result is a character sequence
_normalize_address(x) ==
    IF x = None THEN <<>>
    ELSE LET s1 == Strip(PyStr(x))
             s2 == StripUnitsFrom(s1, 1)
         IN  Lower(Strip(CollapseFrom(s2, 1)))

(***************************************************************************)
(* Python dict and truthiness helpers                                      *)
(***************************************************************************)
IsDict(x) == x.t = "dict"

\* key in d
HasKey(x, k) == k \in DOMAIN x.d

\* d.get(k)
Get(x, k) == IF k \in DOMAIN x.d THEN x.d[k] ELSE None

\* bool(x)
Truthy(x) ==
    CASE x.t = "None" -> FALSE
      [] x.t = "dict" -> DOMAIN x.d # {}
      [] x.t = "list" -> Len(x.l) > 0
      [] x.t = "str"  -> Len(x.s) > 0
      [] x.t = "num"  -> x.n # 0
      [] OTHER        -> TRUE

\* x or {}
OrEmptyDict(x) == IF Truthy(x) THEN x ELSE EmptyDict

(***************************************************************************)
(* Result rows                                                             *)
(***************************************************************************)
NEW_COLUMNS == {"formatted_address", "latitude", "longitude", "state", "county",
                "city", "postal_code", "country", "confidence",
                "state_senate_district", "state_house_district", "input_string"}

_empty_row(address) ==
    [formatted_address |-> None, latitude |-> None, longitude |-> None,
     state |-> None, county |-> None, city |-> None, postal_code |-> None,
     country |-> None, confidence |-> None,
     state_senate_district |-> None, state_house_district |-> None,
     input_string |-> address]

\* the dict literal of main's except branch
FallbackRow(address) ==
    [formatted_address |-> None, latitude |-> None, longitude |-> None,
     state |-> None, county |-> None, city |-> None, postal_code |-> None,
     country |-> None, confidence |-> None,
     state_senate_district |-> None, state_house_district |-> None,
     input_string |-> address]

NoDistricts == [state_senate_district |-> None, state_house_district |-> None]

\* the dict literal built by get_results for a match
MatchedRow(result, address, district_data) ==
    LET pos  == OrEmptyDict(Get(result, "position"))
        addr == OrEmptyDict(Get(result, "address"))
    IN  [formatted_address |-> Get(addr, "freeformAddress"),
         latitude |-> Get(pos, "lat"),
         longitude |-> Get(pos, "lon"),
         state |-> Get(addr, "countrySubdivision"),
         county |-> Get(addr, "countrySecondarySubdivision"),
         city |-> Get(addr, "municipality"),
         postal_code |-> Get(addr, "postalCode"),
         confidence |-> Get(result, "score"),
         state_senate_district |-> district_data.state_senate_district,
         state_house_district |-> district_data.state_house_district,
         input_string |-> address]

\* the statements of the try block up to the gate run without an exception
ParseOk(result) ==
    /\ IsDict(result)
    /\ IsDict(OrEmptyDict(Get(result, "position")))
    /\ IsDict(OrEmptyDict(Get(result, "address")))

\* variant: the gate without the state test
RegionGate_noState(result) ==
    LET pos  == OrEmptyDict(Get(result, "position"))
        addr == OrEmptyDict(Get(result, "address"))
    IN  /\ Get(addr, "country") = Text("US")
        /\ Get(pos, "lat") # None
        /\ Get(pos, "lon") # None

\* variant: the gate without the coordinate tests
RegionGate_noCoords(result) ==
    LET addr == OrEmptyDict(Get(result, "address"))
    IN  /\ Get(addr, "country") = Text("US")
        /\ Get(addr, "countrySubdivision") = Text("MN")

\* country == "US" and state == "MN" and lat is not None and lng is not None
RegionGate(result) ==
    LET pos  == OrEmptyDict(Get(result, "position"))
        addr == OrEmptyDict(Get(result, "address"))
    IN  /\ Get(addr, "country") = Text("US")
        /\ Get(addr, "countrySubdivision") = Text("MN")
        /\ Get(pos, "lat") # None
        /\ Get(pos, "lon") # None

(***************************************************************************)
(* get_census_legislative_districts                                        *)
(***************************************************************************)
NOT_MINNESOTA == Text("Not Minnesota")
\* variant: another state's code as the target
TARGET_STATE_CODE_55 == Text("55")

TARGET_STATE_CODE == Text("27")

\* "State Legislative Districts - Lower" in key, over the layer names in use
IsLowerLayer(k) == k \in {"State Legislative Districts - Lower",
                          "2024 State Legislative Districts - Lower"}

\* "State Legislative Districts - Upper" in key, over the layer names in use
IsUpperLayer(k) == k \in {"State Legislative Districts - Upper",
                          "2024 State Legislative Districts - Upper"}

\* str(v) for a STATE value
StateCodeStr(v) == IF v = None THEN Text("None") ELSE v

\* BASENAME of the first feature of the layer whose name is in keys, None if
\* there is no such layer or its feature list is empty
LayerBasename(geo, keys) ==
    IF keys = {} THEN None
    ELSE LET key == CHOOSE k \in keys : TRUE
         IN  IF Truthy(geo.d[key]) THEN Get(geo.d[key].l[1], "BASENAME") ELSE None

\* c is the outcome of the HTTP request: [ok |-> FALSE] when requests.get,
\* raise_for_status or response.json() raised, else [ok |-> TRUE, data |-> body].
\* The value is [raised, state_senate_district, state_house_district].
get_census_legislative_districts(c) ==
    IF ~c.ok
    THEN [raised |-> FALSE, state_senate_district |-> None, state_house_district |-> None]
    ELSE
      LET data   == c.data
          hasGeo == HasKey(data, "result") /\ HasKey(data.d["result"], "geographies")
          geo    == IF hasGeo THEN data.d["result"].d["geographies"] ELSE EmptyDict
          hasStates == hasGeo /\ HasKey(geo, "States")
      IN  IF hasStates /\ Len(geo.d["States"].l) = 0
          THEN \* geographies["States"][0] raises IndexError
               [raised |-> TRUE, state_senate_district |-> None, state_house_district |-> None]
          ELSE
            LET state_code == IF hasStates
                              THEN StateCodeStr(Get(geo.d["States"].l[1], "STATE"))
                              ELSE None
                state_house  == IF hasGeo THEN LayerBasename(geo, {k \in DOMAIN geo.d : IsLowerLayer(k)}) ELSE None
                state_senate == IF hasGeo THEN LayerBasename(geo, {k \in DOMAIN geo.d : IsUpperLayer(k)}) ELSE None
            IN  [raised |-> FALSE,
                 state_senate_district |->
                     IF state_code # TARGET_STATE_CODE THEN NOT_MINNESOTA ELSE state_senate,
                 state_house_district |-> state_house]

(***************************************************************************)
(* The services' answers the model draws from                              *)
(***************************************************************************)
Geographies(stateList, lower, upper) ==
    Dict([result |-> Dict([geographies |->
        Dict(  (IF stateList = None THEN <<>> ELSE ("States" :> stateList))
            @@ (IF lower = None THEN <<>> ELSE ("2024 State Legislative Districts - Lower" :> lower))
            @@ (IF upper = None THEN <<>> ELSE ("2024 State Legislative Districts - Upper" :> upper)))])])

Feature(name, code) == Dict(("BASENAME" :> Text(name)) @@ ("STATE" :> Text(code)))

CensusResponses ==
    { [ok |-> FALSE],
      [ok |-> TRUE, data |-> EmptyDict],
      [ok |-> TRUE, data |-> Geographies(List(<<Feature("Minnesota", "27")>>),
                                         List(<<Feature("12A", "27")>>),
                                         List(<<Feature("12", "27")>>))],
      [ok |-> TRUE, data |-> Geographies(List(<<Feature("Minnesota", "27")>>),
                                         List(<<>>), None)],
      [ok |-> TRUE, data |-> Geographies(List(<<Feature("Wisconsin", "55")>>),
                                         List(<<Feature("30", "55")>>),
                                         List(<<Feature("10", "55")>>))],
      [ok |-> TRUE, data |-> Geographies(None,
                                         List(<<Feature("12A", "27")>>),
                                         List(<<Feature("12", "27")>>))],
      [ok |-> TRUE, data |-> Geographies(List(<<>>),
                                         List(<<Feature("12A", "27")>>),
                                         List(<<Feature("12", "27")>>))] }

ProviderAddress(country, state) ==
    Dict([freeformAddress |-> Text("1 Main St"), countrySubdivision |-> Text(state),
          countrySecondarySubdivision |-> Text("County"), municipality |-> Text("City"),
          postalCode |-> Text("55101"), country |-> Text(country)])

Position == Dict([lat |-> Num(449), lon |-> Num(0 - 931)])

\* first elements of the provider's results list
ProviderResults ==
    { Dict([position |-> Position, address |-> ProviderAddress("US", "MN"), score |-> Num(9)]),
      Dict([address |-> ProviderAddress("US", "MN"), score |-> Num(9)]),
      Dict([position |-> Position, address |-> ProviderAddress("US", "WI"), score |-> Num(9)]),
      Dict([position |-> Position, address |-> ProviderAddress("CA", "ON"), score |-> Num(9)]),
      Text("not an object") }

\* HTTP statuses the provider answers with besides 200
ErrorStatuses == {404, 429, 500, 501, 503}

\* bodies of a 200 response: unparsable text, or a parsed JSON value
Bodies200 ==
    { [json |-> FALSE] }
    \cup { [json |-> TRUE, value |-> Dict([results |-> List(<<r>>)])] : r \in ProviderResults }
    \cup { [json |-> TRUE, value |-> Dict([results |-> List(<<>>)])],
           [json |-> TRUE, value |-> EmptyDict],
           [json |-> TRUE, value |-> List(<<>>)] }

\* what sess.get can produce: a response, or a requests.RequestException
ProviderResponses ==
    { [kind |-> "neterr"] }
    \cup { [kind |-> "http", status |-> st] : st \in ErrorStatuses }
    \cup { [kind |-> "http", status |-> 200, body |-> b] : b \in Bodies200 }

\* the 200 body makes payload.get or resp.json() raise something that is not
\* a RequestException in every build
IsBadShape(resp) ==
    resp.kind = "http" /\ resp.status = 200 /\ resp.body.json /\ ~IsDict(resp.body.value)

(***************************************************************************)
(* save_results                                                            *)
(***************************************************************************)
\* original_data.columns: the input table holds the address column only
INPUT_COLUMNS == {"address"}

Max(a, b) == IF a >= b THEN a ELSE b

\* pd.DataFrame(results) has the union of the rows' keys as columns; concat
\* aligns it with original_data on the row index; merged_df[all_columns]
\* raises KeyError when a listed column is missing.  A key a row lacks is an
\* empty cell.
save_results(res, original_data) ==
    LET result_columns == UNION {DOMAIN res[k] : k \in 1..Len(res)}
        merged_columns == INPUT_COLUMNS \cup result_columns
        all_columns    == INPUT_COLUMNS \cup (NEW_COLUMNS \ INPUT_COLUMNS)
    IN  IF ~(all_columns \subseteq merged_columns)
        THEN [ok |-> FALSE]
        ELSE [ok |-> TRUE,
              rows |-> [k \in 1..Max(Len(res), Len(original_data)) |->
                  [input |-> IF k <= Len(original_data) THEN original_data[k] ELSE None,
                   cells |-> [c \in NEW_COLUMNS |->
                                 IF k <= Len(res) /\ c \in DOMAIN res[k]
                                 THEN res[k][c] ELSE None]]]]

(***************************************************************************)
(* _azure_search_address: one iteration of the attempt loop                *)
(***************************************************************************)
\* variant: 503 left out of the retryable statuses
RETRY_STATUSES_no503 == {500, 502, 504}

RETRY_STATUSES == {500, 502, 503, 504}

\* variant: the same delay after every failed attempt
BackoffDelay_flat(a) == 100

\* time.sleep(1.0 + attempt * 0.5), in hundredths of a second
BackoffDelay(a) == 100 + a * 50

\* variant: a 429 answer ends the call like any other 4xx
AttemptOutcome_no429(resp, jsonIsReqExc) ==
    IF resp.kind = "neterr" THEN "retry"
    ELSE IF resp.status = 200 THEN
        IF ~resp.body.json THEN (IF jsonIsReqExc THEN "retry" ELSE "raise")
        ELSE IF ~IsDict(resp.body.value) THEN "raise"
        ELSE IF Truthy(Get(resp.body.value, "results")) THEN "match" ELSE "none"
    ELSE IF resp.status \in RETRY_STATUSES THEN "retry"
    ELSE "none"

\* What the loop body does with the outcome resp of sess.get:
\*   "retry"  sleep and go to the next iteration (or fall out of the loop)
\*   "none"   return None
\*   "match"  return results[0]
\*   "raise"  an exception that no except clause of the function catches
AttemptOutcome(resp, jsonIsReqExc) ==
    IF resp.kind = "neterr" THEN "retry"
    ELSE IF resp.status = 200 THEN
        IF ~resp.body.json THEN (IF jsonIsReqExc THEN "retry" ELSE "raise")
        ELSE IF ~IsDict(resp.body.value) THEN "raise"
        ELSE IF Truthy(Get(resp.body.value, "results")) THEN "match" ELSE "none"
    ELSE IF resp.status = 429 THEN "retry"
    ELSE IF resp.status \in RETRY_STATUSES THEN "retry"
    ELSE "none"

\* results[0]
FirstResult(resp) == Get(resp.body.value, "results").l[1]

\* the delay slept in this iteration, <<>> if none
AttemptSleep(resp, jsonIsReqExc, a) ==
    LET o == AttemptOutcome(resp, jsonIsReqExc)
    IN  IF o = "retry" THEN <<BackoffDelay(a)>>
        ELSE IF o \in {"match", "none"} /\ resp.status = 200 THEN <<RATE_LIMIT_SLEEP>>
        ELSE <<>>

\* entry of reqLog for one request
LogEntry(resp, jsonIsReqExc) ==
    [status |-> IF resp.kind = "neterr" THEN 0 ELSE resp.status,
     outcome |-> AttemptOutcome(resp, jsonIsReqExc)]

(***************************************************************************)
(* get_results and the loop body of main                                   *)
(***************************************************************************)
\* variant: the empty key left out of the blank test
BlankKeys_noEmpty == { <<"n","a","n">>, <<"n","o","n","e">> }

\* key in ("", "nan", "none")
BlankKeys == { <<>>, <<"n","a","n">>, <<"n","o","n","e">> }

NoCall == [n |-> 0, addr |-> None, key |-> <<>>, cachedBefore |-> FALSE,
           calledBefore |-> FALSE, storedBefore |-> None, done |-> FALSE,
           raised |-> FALSE, row |-> None, requests |-> 0, census |-> 0,
           retried |-> 0, all503 |-> FALSE, delays |-> <<>>,
           clientDone |-> FALSE, clientRaised |-> FALSE, clientResult |-> None,
           lastStatus |-> 0 - 1, lastOutcome |-> "", onlyListed |-> FALSE,
           only5xx |-> FALSE, censusResp |-> None]

\* variant: the cache is never consulted
InCache_never(key) == FALSE

\* key in cache
InCache(key) == key \in DOMAIN cache

\* history record opened when get_results is entered for row n
CallEntry(n, address, key) ==
    [NoCall EXCEPT !.n = n, !.addr = address, !.key = key,
                   !.cachedBefore = key \in DOMAIN cache,
                   !.calledBefore = key \in calledKeys,
                   !.storedBefore = IF key \in DOMAIN firstStored
                                    THEN firstStored[key] ELSE None]

\* The rest of the loop body once get_results has returned row (or raised):
\* the except branch of main, results.append, and the checkpoint of every
\* CHECKPOINT_EVERY-th row.  store says whether get_results executed
\* cache[key] = row.
EndCall(call, raised, row, store) ==
    LET res      == IF raised THEN FallbackRow(call.addr) ELSE row
        results2 == Append(results, res)
        file     == save_results(results2, SubSeq(addresses, 1, call.n))
    IN  /\ results' = results2
        /\ cache' = IF store THEN (call.key :> row) @@ cache ELSE cache
        /\ firstStored' = IF store /\ call.key \notin DOMAIN firstStored
                          THEN (call.key :> row) @@ firstStored ELSE firstStored
        /\ lastCall' = [call EXCEPT !.done = TRUE, !.raised = raised,
                                   !.row = IF raised THEN None ELSE row]
        /\ IF call.n % CHECKPOINT_EVERY = 0
           THEN IF file.ok
                THEN /\ checkpoints' = Append(checkpoints, [n |-> call.n, rows |-> file.rows])
                     /\ pc' = "loop"
                ELSE /\ checkpoints' = checkpoints
                     /\ pc' = "crashed"
           ELSE /\ checkpoints' = checkpoints
                /\ pc' = "loop"
        /\ curAddr' = None
        /\ attempt' = 0
        /\ azResult' = None
        /\ reqLog' = <<>>
        /\ sleeps' = <<>>

\* variant: the boundary lookup is made whatever the client returned
AfterClient_always(call, result) ==
    /\ pc' = "census"
    /\ azResult' = result
    /\ lastCall' = call
    /\ reqLog' = <<>>
    /\ sleeps' = <<>>
    /\ UNCHANGED <<results, cache, firstStored, checkpoints, curAddr, attempt>>

\* get_results after _azure_search_address returned result
AfterClient(call, result) ==
    IF ~Truthy(result) \/ ~ParseOk(result)
    THEN EndCall(call, FALSE, _empty_row(call.addr), TRUE)
    ELSE IF RegionGate(result)
    THEN /\ pc' = "census"
         /\ azResult' = result
         /\ lastCall' = call
         /\ reqLog' = <<>>
         /\ sleeps' = <<>>
         /\ UNCHANGED <<results, cache, firstStored, checkpoints, curAddr, attempt>>
    ELSE EndCall(call, FALSE, MatchedRow(result, call.addr, NoDistricts), TRUE)

\* for i, address in enumerate(addresses, 1): the loop body up to the first
\* request of the row, or to the end of the body when get_results returns
\* without a request
LoopNext ==
    /\ pc = "loop"
    /\ i < Len(addresses)
    /\ i' = i + 1
    /\ LET address == addresses[i + 1]
           key     == _normalize_address(address)
           call    == CallEntry(i + 1, address, key)
       IN  /\ calledKeys' = calledKeys \cup {key}
           /\ IF key \in BlankKeys
              THEN /\ EndCall(call, FALSE, _empty_row(address), TRUE)
                   /\ UNCHANGED clientCalls
              ELSE IF InCache(key)
              THEN /\ EndCall(call, FALSE, cache[key], FALSE)
                   /\ UNCHANGED clientCalls
              ELSE /\ pc' = "azure"
                   /\ curAddr' = address
                   /\ attempt' = 0
                   /\ lastCall' = call
                   /\ clientCalls' = IF key \in DOMAIN clientCalls
                                     THEN [clientCalls EXCEPT ![key] = @ + 1]
                                     ELSE (key :> 1) @@ clientCalls
                   /\ UNCHANGED <<results, cache, firstStored, checkpoints, azResult,
                                  reqLog, sleeps>>
    /\ UNCHANGED <<addresses, saved, jsonErrIsReqExc, badShapes>>
    /\ UNCHANGED normVars

\* one request of _azure_search_address and everything up to the next request
AzureRespond ==
    /\ pc = "azure"
    /\ \E resp \in ProviderResponses :
        LET o     == AttemptOutcome(resp, jsonErrIsReqExc)
            log   == Append(reqLog, LogEntry(resp, jsonErrIsReqExc))
            slp   == sleeps \o AttemptSleep(resp, jsonErrIsReqExc, attempt)
            call  == [lastCall EXCEPT !.requests = Len(log),
                        !.retried = Cardinality({k \in 1..Len(log) : log[k].outcome = "retry"}),
                        !.all503 = \A k \in 1..Len(log) : log[k].status = 503,
                        !.lastStatus = log[Len(log)].status,
                        !.lastOutcome = o,
                        !.onlyListed = \A k \in 1..Len(log) :
                                          log[k].status \in {0, 429, 500, 502, 503, 504},
                        !.only5xx = \A k \in 1..Len(log) :
                                          log[k].status \in {0, 429} \cup (500..599)]
            ended(raised, result) ==
                     [call EXCEPT !.clientDone = TRUE, !.clientRaised = raised,
                                  !.clientResult = result, !.delays = slp]
        IN  /\ (o = "raise") => badShapes < MaxBadShapes
            /\ badShapes' = IF o = "raise" THEN badShapes + 1 ELSE badShapes
            /\ CASE o = "retry" /\ attempt < AZURE_MAX_RETRIES ->
                        /\ attempt' = attempt + 1
                        /\ reqLog' = log
                        /\ sleeps' = slp
                        /\ lastCall' = call
                        /\ UNCHANGED <<pc, results, cache, firstStored, checkpoints,
                                       curAddr, azResult>>
                 [] o = "retry" /\ attempt >= AZURE_MAX_RETRIES ->
                        AfterClient(ended(FALSE, None), None)
                 [] o = "none"  -> AfterClient(ended(FALSE, None), None)
                 [] o = "match" -> AfterClient(ended(FALSE, FirstResult(resp)), FirstResult(resp))
                 [] o = "raise" -> EndCall(ended(TRUE, None), TRUE, None, FALSE)
    /\ UNCHANGED <<addresses, i, saved, jsonErrIsReqExc, clientCalls, calledKeys>>
    /\ UNCHANGED normVars

\* the request of get_census_legislative_districts and the rest of the loop body
CensusRespond ==
    /\ pc = "census"
    /\ \E c \in CensusResponses :
        LET d    == get_census_legislative_districts(c)
            call == [lastCall EXCEPT !.census = @ + 1, !.censusResp = c]
        IN  IF d.raised
            THEN EndCall(call, FALSE, _empty_row(call.addr), TRUE)
            ELSE EndCall(call, FALSE,
                         MatchedRow(azResult, call.addr,
                                    [state_senate_district |-> d.state_senate_district,
                                     state_house_district |-> d.state_house_district]),
                         TRUE)
    /\ UNCHANGED <<addresses, i, saved, jsonErrIsReqExc, badShapes, clientCalls, calledKeys>>
    /\ UNCHANGED normVars

\* after the loop: save_results(results, output_filename, data)
FinalSave ==
    /\ pc = "loop"
    /\ i = Len(addresses)
    /\ LET file == save_results(results, addresses)
       IN  /\ saved' = [called |-> TRUE, received |-> results, out |-> file]
           /\ pc' = IF file.ok THEN "done" ELSE "crashed"
    /\ UNCHANGED <<addresses, i, results, cache, curAddr, attempt, azResult, checkpoints,
                   jsonErrIsReqExc, badShapes, clientCalls, calledKeys, firstStored,
                   lastCall, reqLog, sleeps>>
    /\ UNCHANGED normVars

(***************************************************************************)
(* Application of _normalize_address to a string, and to its own result    *)
(***************************************************************************)
NormApply ==
    /\ nPc = "in"
    /\ nOut' = _normalize_address(Str(nIn))
    /\ nPc' = "once"
    /\ UNCHANGED <<nIn, nOut2>>
    /\ UNCHANGED unitVars
    /\ UNCHANGED mainVars

NormReapply ==
    /\ nPc = "once"
    /\ nOut2' = _normalize_address(Str(nOut))
    /\ nPc' = "twice"
    /\ UNCHANGED <<nIn, nOut>>
    /\ UNCHANGED unitVars
    /\ UNCHANGED mainVars

(***************************************************************************)
(* Application of _normalize_address to an address and to the same address *)
(* with a unit suffix                                                      *)
(***************************************************************************)
UnitKeyBase ==
    /\ uPc = "in"
    /\ uKeyBase' = _normalize_address(Str(uBase))
    /\ uPc' = "base"
    /\ UNCHANGED <<uBase, uFull, uKeyFull>>
    /\ UNCHANGED <<nIn, nOut, nOut2, nPc>>
    /\ UNCHANGED mainVars

UnitKeyFull ==
    /\ uPc = "base"
    /\ uKeyFull' = _normalize_address(Str(uFull))
    /\ uPc' = "both"
    /\ UNCHANGED <<uBase, uFull, uKeyBase>>
    /\ UNCHANGED <<nIn, nOut, nOut2, nPc>>
    /\ UNCHANGED mainVars

(***************************************************************************)
(* Inputs                                                                  *)
(***************************************************************************)
\* values of the address column
AddressPool ==
    { None, NaN, Str(<<>>), Str(<<" ">>),
      Str(<<"1", " ", "M">>),
      Str(<<"1", " ", "m", " ", "#", "4">>),
      Str(<<"2", " ", "E">>) }

SeqsUpTo(S, n) == UNION { [1..m -> S] : m \in 0..n }

\* long inputs: CHECKPOINT_EVERY + LongExtra rows, the same address in every
\* row but possibly the first
LongExtra == 1
LongWorkloads ==
    { [k \in 1..(CHECKPOINT_EVERY + LongExtra) |-> IF k = 1 THEN first ELSE Str(<<"1", " ", "M">>)] :
        first \in {Str(<<"1", " ", "M">>), Str(<<>>)} }

NormAlphabet == {"A", "1", " ", "#", "-"}

\* characters of the addresses that get a unit suffix
UnitAlphabet == {"1", "m", " ", "#"}

\* spellings of the unit designator in a suffix
SuffixKeywords ==
    { <<"A","p","t">>, <<"A","P","T">>, <<"A","p","a","r","t","m","e","n","t">>,
      <<"U","n","i","t">>, <<"U","N","I","T">>, <<"S","u","i","t","e">>,
      <<"s","t","e">>, <<"#">> }

\* the alphanumeric token of a suffix
SuffixTokens == { <<"4">>, <<"4","B">> }

\* str.upper() on one character
UpperChar(c) ==
    IF c \in Range(LowerChars)
    THEN UpperChars[CHOOSE k \in DOMAIN LowerChars : LowerChars[k] = c]
    ELSE c

\* str.upper()
Upper(s) == [k \in DOMAIN s |-> UpperChar(s[k])]

MainIdle ==
    /\ i = 0
    /\ results = <<>>
    /\ cache = <<>>
    /\ curAddr = None
    /\ attempt = 0
    /\ azResult = None
    /\ saved = [called |-> FALSE]
    /\ checkpoints = <<>>
    /\ badShapes = 0
    /\ clientCalls = <<>>
    /\ calledKeys = {}
    /\ firstStored = <<>>
    /\ lastCall = NoCall
    /\ reqLog = <<>>
    /\ sleeps = <<>>

UnitIdle ==
    /\ uBase = <<>>
    /\ uFull = <<>>
    /\ uKeyBase = <<>>
    /\ uKeyFull = <<>>
    /\ uPc = "off"

NormIdle ==
    /\ nIn = <<>>
    /\ nOut = <<>>
    /\ nOut2 = <<>>
    /\ nPc = "off"
    /\ UnitIdle

\* main() with a short input
Init ==
    /\ addresses \in SeqsUpTo(AddressPool, MaxRows)
    /\ jsonErrIsReqExc \in BOOLEAN
    /\ pc = "loop"
    /\ MainIdle
    /\ NormIdle

\* main() with the inputs of the fair runs
InitFair ==
    /\ addresses \in SeqsUpTo(AddressPool, FairRows)
    /\ jsonErrIsReqExc \in BOOLEAN
    /\ pc = "loop"
    /\ MainIdle
    /\ NormIdle

\* main() with an input longer than the checkpoint interval, in a build whose
\* resp.json() failure is a RequestException
InitLong ==
    /\ addresses \in LongWorkloads
    /\ jsonErrIsReqExc = TRUE
    /\ pc = "loop"
    /\ MainIdle
    /\ NormIdle

\* _normalize_address alone
InitNorm ==
    /\ nIn \in SeqsUpTo(NormAlphabet, MaxLen)
    /\ nOut = <<>>
    /\ nOut2 = <<>>
    /\ nPc = "in"
    /\ UnitIdle
    /\ addresses = <<>>
    /\ jsonErrIsReqExc = TRUE
    /\ pc = "off"
    /\ MainIdle

\* _normalize_address on an address with and without a unit suffix
InitUnit ==
    /\ \E base \in SeqsUpTo(UnitAlphabet, MaxBaseLen), up \in BOOLEAN,
          kw \in SuffixKeywords, sep \in {<<>>, <<" ">>}, tok \in SuffixTokens :
          /\ uBase = base
          /\ uFull = (IF up THEN Upper(base) ELSE base) \o <<" ">> \o kw \o sep \o tok
    /\ uKeyBase = <<>>
    /\ uKeyFull = <<>>
    /\ uPc = "in"
    /\ nIn = <<>>
    /\ nOut = <<>>
    /\ nOut2 = <<>>
    /\ nPc = "off"
    /\ addresses = <<>>
    /\ jsonErrIsReqExc = TRUE
    /\ pc = "off"
    /\ MainIdle

Next == LoopNext \/ AzureRespond \/ CensusRespond \/ FinalSave

NextNorm == NormApply \/ NormReapply

NextUnit == UnitKeyBase \/ UnitKeyFull

Spec == Init /\ [][Next]_vars

\* every request of the client ends: sess.get is called with a timeout
SpecFair == InitFair /\ [][Next]_vars /\ WF_vars(AzureRespond)

SpecLong == InitLong /\ [][Next]_vars

SpecNorm == InitNorm /\ [][NextNorm]_vars

SpecUnit == InitUnit /\ [][NextUnit]_vars

TypeOK ==
    /\ pc \in {"loop", "azure", "census", "done", "crashed", "off"}
    /\ i \in 0..Len(addresses)
    /\ attempt \in 0..AZURE_MAX_RETRIES

(***************************************************************************)
(* Properties                                                              *)
(***************************************************************************)
\* every result field of the row is null and input_string is a
AllNullExceptInput(row, a) ==
    /\ DOMAIN row = NEW_COLUMNS
    /\ \A c \in NEW_COLUMNS \ {"input_string"} : row[c] = None
    /\ row.input_string = a

\* the row carries no result: every field it has besides input_string is null
IsMissRow(row) == \A c \in (DOMAIN row) \ {"input_string"} : row[c] = None

\* the last finished call got a usable match from the geocoding client
GeocodedMatch(call) ==
    /\ call.done
    /\ call.clientDone
    /\ ~call.clientRaised
    /\ Truthy(call.clientResult)
    /\ ParseOk(call.clientResult)

ProviderCountry(result) == Get(OrEmptyDict(Get(result, "address")), "country")
ProviderState(result) == Get(OrEmptyDict(Get(result, "address")), "countrySubdivision")

\* C1: the geocoding client is invoked at most once per non-blank key, and a
\* later get_results call with a key seen before makes no request and
\* returns the row stored by the first call.
C1_ClientOncePerKey ==
    /\ \A k \in DOMAIN clientCalls : clientCalls[k] <= 1
    /\ (lastCall.done /\ lastCall.key \notin BlankKeys /\ lastCall.calledBefore)
          => /\ lastCall.requests = 0
             /\ ~lastCall.raised
             /\ lastCall.row = lastCall.storedBefore

\* C2: the loop appends one row per input row in input order, is never
\* aborted, and the final save_results call receives all N rows.
C2_OneRowPerInput ==
    /\ (pc = "loop") => Len(results) = i
    /\ (pc \in {"done", "crashed"})
          => /\ saved.called
             /\ saved.received = results
             /\ Len(saved.received) = Len(addresses)
             /\ \A k \in 1..Len(results) :
                   _normalize_address(results[k].input_string)
                       = _normalize_address(addresses[k])

\* C3: when every request of a client call was answered with 503, the call
\* returns None after exactly AZURE_MAX_RETRIES + 1 requests and raises nothing.
C3_RetryExhaustion ==
    (lastCall.clientDone /\ lastCall.all503)
        => /\ lastCall.requests = AZURE_MAX_RETRIES + 1
           /\ lastCall.clientResult = None
           /\ ~lastCall.clientRaised

C3_Witness ==
    /\ lastCall.done
    /\ lastCall.clientDone
    /\ lastCall.all503
    /\ lastCall.requests = 3

\* the address is None, empty or whitespace only
IsBlankInput(a) ==
    \/ a = None
    \/ a.t = "str" /\ \A k \in 1..Len(a.s) : IsSpace(a.s[k])

\* C4: for a null, empty or whitespace-only address get_results returns the
\* all-null row with input_string equal to the raw input, sends no request to
\* the provider or the boundary service, and stores the row under the blank key.
C4_BlankAddress ==
    (lastCall.done /\ IsBlankInput(lastCall.addr))
        => /\ ~lastCall.raised
           /\ AllNullExceptInput(lastCall.row, lastCall.addr)
           /\ lastCall.requests = 0
           /\ lastCall.census = 0
           /\ ~lastCall.clientDone
           /\ lastCall.key = <<>>
           /\ <<>> \in DOMAIN cache
           /\ cache[<<>>] = lastCall.row

C4_Witness ==
    /\ lastCall.done
    /\ lastCall.addr = Str(<<" ">>)
    /\ lastCall.n = 2
    /\ cache[<<>>] = _empty_row(Str(<<" ">>))

\* C5: whenever get_results returns a miss for address a, the row is all null
\* with input_string equal to a, also when the call is answered from the cache.
C5_MissKeepsInput ==
    (lastCall.done /\ ~lastCall.raised /\ IsMissRow(lastCall.row))
        => AllNullExceptInput(lastCall.row, lastCall.addr)

\* C6 as stated: for a geocoded match, a country other than US gives null
\* district fields, and country US with a state other than MN gives the
\* sentinel in state_senate_district and null in state_house_district.
C6_Original ==
    GeocodedMatch(lastCall) =>
        LET r == lastCall.clientResult
        IN  /\ ProviderCountry(r) # Text("US")
               => /\ lastCall.row.state_senate_district = None
                  /\ lastCall.row.state_house_district = None
            /\ (ProviderCountry(r) = Text("US") /\ ProviderState(r) # Text("MN"))
               => /\ lastCall.row.state_senate_district = NOT_MINNESOTA
                  /\ lastCall.row.state_house_district = None

\* C6 as amended: for a geocoded match whose country is not US, or whose
\* country is US and whose state is not MN, no boundary request is made and
\* both district fields are null.
C6_RegionGating ==
    GeocodedMatch(lastCall) =>
        LET r == lastCall.clientResult
        IN  (ProviderCountry(r) # Text("US") \/ ProviderState(r) # Text("MN"))
               => /\ lastCall.census = 0
                  /\ lastCall.row.state_senate_district = None
                  /\ lastCall.row.state_house_district = None

C6_Witness ==
    /\ GeocodedMatch(lastCall)
    /\ ProviderCountry(lastCall.clientResult) = Text("US")
    /\ ProviderState(lastCall.clientResult) = Text("WI")
    /\ lastCall.row.latitude # None

\* C7: every row of the result set has exactly the twelve output fields, and
\* the row built for a match holds the provider's country.
C7_TwelveFields ==
    /\ \A k \in 1..Len(results) : DOMAIN results[k] = NEW_COLUMNS
    /\ (GeocodedMatch(lastCall) /\ ~IsMissRow(lastCall.row))
          => /\ "country" \in DOMAIN lastCall.row
             /\ lastCall.row["country"] = ProviderCountry(lastCall.clientResult)

\* C8: get_results never raises, whatever the provider answers; the row it
\* returns is in the cache, and a 200 body that is not valid JSON or not of
\* the expected shape gives the all-null row.
C8_AlwaysReturnsRow ==
    lastCall.done
        => /\ ~lastCall.raised
           /\ lastCall.key \in DOMAIN cache
           /\ cache[lastCall.key] = lastCall.row
           /\ (lastCall.clientDone /\ lastCall.clientResult = None)
                 => AllNullExceptInput(lastCall.row, lastCall.addr)

\* the file content save_results writes for the first n rows
ExpectedFile(n) ==
    [k \in 1..n |->
        [input |-> addresses[k],
         cells |-> [c \in NEW_COLUMNS |->
                       IF c \in DOMAIN results[k] THEN results[k][c] ELSE None]]]

\* C9: once i = 1000, 2000, ... rows are processed there is a checkpoint with
\* exactly the first i result rows paired with input rows 1..i, so at most
\* CHECKPOINT_EVERY processed rows are outside the latest checkpoint.
C9_Checkpoints ==
    LET n == (Len(results) \div CHECKPOINT_EVERY) * CHECKPOINT_EVERY
    IN  /\ n > 0 => /\ Len(checkpoints) = n \div CHECKPOINT_EVERY
                    /\ checkpoints[Len(checkpoints)].n = n
                    /\ checkpoints[Len(checkpoints)].rows = ExpectedFile(n)
        /\ Len(results) - (IF checkpoints = <<>> THEN 0
                           ELSE checkpoints[Len(checkpoints)].n) <= CHECKPOINT_EVERY

\* C10: _normalize_address(_normalize_address(x)) = _normalize_address(x)
\* for every string x over the alphabet.
C10_Idempotent ==
    (nPc = "twice") => nOut2 = nOut

\* the address, stripped, ends in a unit keyword preceded by whitespace
EndsInDesignator(b) ==
    LET sb == Strip(b)
    IN  \E a \in DOMAIN UnitKeywords :
          LET q == Len(sb) - Len(UnitKeywords[a]) + 1
          IN  /\ q >= 2
              /\ IsSpace(sb[q - 1])
              /\ KeywordAt(sb, q, UnitKeywords[a])

\* C11 as stated: an address with a unit suffix, in any letter case, has the
\* key of the address without the suffix.
C11_Original ==
    (uPc = "both") => uKeyFull = uKeyBase

\* C11 as amended: the same, for an address that is not blank and does not
\* itself end in a unit keyword preceded by whitespace.
C11_SuffixInsensitive ==
    (uPc = "both" /\ Strip(uBase) # <<>> /\ ~EndsInDesignator(uBase))
        => uKeyFull = uKeyBase

C11_Witness ==
    /\ uPc = "both"
    /\ uBase = <<"1", " ", "m">>
    /\ uFull = <<"1", " ", "M", " ", "U", "N", "I", "T", " ", "4">>
    /\ uKeyFull = <<"1", " ", "m">>

\* the geographies object of a boundary response, empty if the request
\* failed or the response lacks result/geographies
ReportedGeo(c) ==
    IF "ok" \in DOMAIN c /\ c.ok /\ HasKey(c.data, "result")
       /\ HasKey(c.data.d["result"], "geographies")
    THEN c.data.d["result"].d["geographies"]
    ELSE EmptyDict

\* what a boundary response reports: the lower and upper district names and
\* the state code (None when absent)
ReportedLower(c) == LayerBasename(ReportedGeo(c), {k \in DOMAIN ReportedGeo(c).d : IsLowerLayer(k)})
ReportedUpper(c) == LayerBasename(ReportedGeo(c), {k \in DOMAIN ReportedGeo(c).d : IsUpperLayer(k)})
ReportedState(c) ==
    IF HasKey(ReportedGeo(c), "States") /\ Truthy(ReportedGeo(c).d["States"])
    THEN Get(ReportedGeo(c).d["States"].l[1], "STATE")
    ELSE None

\* the last finished call got a US/MN match with coordinates and asked the
\* boundary service
MinnesotaLookup(call) ==
    /\ GeocodedMatch(call)
    /\ ProviderCountry(call.clientResult) = Text("US")
    /\ ProviderState(call.clientResult) = Text("MN")
    /\ Get(OrEmptyDict(Get(call.clientResult, "position")), "lat") # None
    /\ Get(OrEmptyDict(Get(call.clientResult, "position")), "lon") # None
    /\ call.census = 1

\* C12 as stated: a US/MN match with coordinates whose boundary lookup
\* returns the house district "12A" gives a row with formatted_address set,
\* state_house_district "12A" and state_senate_district "12".
C12_Original ==
    (MinnesotaLookup(lastCall) /\ ReportedLower(lastCall.censusResp) = Text("12A"))
        => /\ lastCall.row.formatted_address # None
           /\ lastCall.row.state_house_district = Text("12A")
           /\ lastCall.row.state_senate_district = Text("12")

\* C12 as amended: the same when the boundary lookup also returns the state
\* code "27" and the senate (upper) district "12".
C12_EndToEnd ==
    (/\ MinnesotaLookup(lastCall)
     /\ ReportedLower(lastCall.censusResp) = Text("12A")
     /\ ReportedUpper(lastCall.censusResp) = Text("12")
     /\ ReportedState(lastCall.censusResp) = Text("27"))
        => /\ lastCall.row.formatted_address # None
           /\ lastCall.row.state_house_district = Text("12A")
           /\ lastCall.row.state_senate_district = Text("12")

C12_Witness ==
    /\ MinnesotaLookup(lastCall)
    /\ ReportedState(lastCall.censusResp) = Text("27")
    /\ ReportedLower(lastCall.censusResp) = Text("12A")
    /\ lastCall.row.state_senate_district = Text("12")
    /\ lastCall.row.formatted_address = Text("1 Main St")

\* result is a match with both coordinates, country US and state MN
InTargetRegion(result) ==
    /\ Truthy(result)
    /\ ParseOk(result)
    /\ ProviderCountry(result) = Text("US")
    /\ ProviderState(result) = Text("MN")
    /\ Get(OrEmptyDict(Get(result, "position")), "lat") # None
    /\ Get(OrEmptyDict(Get(result, "position")), "lon") # None

\* the call returned the row the cache held for its key
AnsweredFromCache(call) == call.cachedBefore /\ call.key \notin BlankKeys

\* C13 as stated: the boundary service is called only for a match with both
\* coordinates, country US and state MN; in every other case no boundary
\* call is made and both district fields of the row are null.
C13_Original ==
    /\ (pc = "census") => (lastCall.clientDone /\ InTargetRegion(azResult))
    /\ (lastCall.done /\ lastCall.census > 0) => InTargetRegion(lastCall.clientResult)
    /\ (lastCall.done /\ ~(lastCall.clientDone /\ InTargetRegion(lastCall.clientResult)))
          => /\ lastCall.census = 0
             /\ ~lastCall.raised
                   => /\ lastCall.row.state_senate_district = None
                      /\ lastCall.row.state_house_district = None

\* C13 as amended: the same, except that a row returned from the cache keeps
\* the district fields of the call that built it.
C13_BoundaryGate ==
    /\ (pc = "census") => (lastCall.clientDone /\ InTargetRegion(azResult))
    /\ (lastCall.done /\ lastCall.census > 0) => InTargetRegion(lastCall.clientResult)
    /\ (lastCall.done /\ ~(lastCall.clientDone /\ InTargetRegion(lastCall.clientResult)))
          => /\ lastCall.census = 0
             /\ (~lastCall.raised /\ ~AnsweredFromCache(lastCall))
                   => /\ lastCall.row.state_senate_district = None
                      /\ lastCall.row.state_house_district = None

C13_Witness ==
    /\ GeocodedMatch(lastCall)
    /\ ProviderState(lastCall.clientResult) = Text("MN")
    /\ Get(OrEmptyDict(Get(lastCall.clientResult, "position")), "lat") = None
    /\ lastCall.census = 0
    /\ lastCall.row.state_senate_district = None

\* the boundary lookup of the call failed: the request or its JSON decoding
\* failed, the body lacks result/geographies, or a layer has no feature
BoundaryFailure(c) ==
    \/ ~c.ok
    \/ ~(HasKey(c.data, "result") /\ HasKey(c.data.d["result"], "geographies"))
    \/ \E k \in DOMAIN ReportedGeo(c).d : ~Truthy(ReportedGeo(c).d[k])

\* C14: a failed boundary lookup gives both district fields null, raises
\* nothing out of get_results, and leaves the geocoded fields of the row as
\* the provider returned them.
C14_BoundaryFailure ==
    (lastCall.done /\ lastCall.census = 1 /\ BoundaryFailure(lastCall.censusResp))
       => /\ ~lastCall.raised
          /\ lastCall.row = MatchedRow(lastCall.clientResult, lastCall.addr, NoDistricts)

\* C15: get_census_legislative_districts returns the sentinel in
\* state_senate_district exactly when the response reported a state code
\* other than "27"; without state data the field is null; with code "27" it
\* is the upper-district value of the response.
C15_Sentinel ==
    (lastCall.done /\ lastCall.census = 1)
       => LET c == lastCall.censusResp
              d == get_census_legislative_districts(c)
          IN  /\ ~d.raised
              /\ (d.state_senate_district = NOT_MINNESOTA)
                    <=> (ReportedState(c) # None /\ ReportedState(c) # Text("27"))
              /\ (ReportedState(c) = None) => d.state_senate_district = None
              /\ (ReportedState(c) = Text("27")) => d.state_senate_district = ReportedUpper(c)

\* this step is a request of the current call answered with a status of S
\* while fewer than max_retries additional attempts have been used
AnsweredWithBudget(S) ==
    /\ pc = "azure"
    /\ attempt < AZURE_MAX_RETRIES
    /\ lastCall'.n = lastCall.n
    /\ lastCall'.requests = lastCall.requests + 1
    /\ lastCall'.lastStatus \in S

\* this step sleeps the backoff delay and stays in the attempt loop
WaitsAndRetries ==
    /\ pc' = "azure"
    /\ attempt' = attempt + 1
    /\ sleeps' = Append(sleeps, BackoffDelay(attempt))
    /\ ~lastCall'.clientDone

AnsweredWith(S) ==
    /\ pc = "azure"
    /\ lastCall'.n = lastCall.n
    /\ lastCall'.requests = lastCall.requests + 1
    /\ lastCall'.lastStatus \in S

\* C17: a 200 response, or a 4xx response other than 429, ends
\* _azure_search_address at once: the 200 returns results[0] or None, the 4xx
\* returns None without a backoff delay, and the number of requests made is
\* the number of retryable failures seen before plus one.
C17_TerminalResponse ==
    [][ /\ AnsweredWith({200} \cup ((400..499) \ {429}))
           => /\ lastCall'.clientDone
              /\ ~lastCall'.clientRaised
              /\ lastCall'.requests = lastCall.retried + 1
        /\ AnsweredWith({200})
           => \/ lastCall'.lastOutcome = "match" /\ lastCall'.clientResult \in ProviderResults
              \/ lastCall'.lastOutcome = "none" /\ lastCall'.clientResult = None
        /\ AnsweredWith((400..499) \ {429})
           => /\ lastCall'.clientResult = None
              /\ lastCall'.delays = sleeps
      ]_vars

\* the delays 1.0 + 0.5*k after the failed attempts k = 0 .. n-1
DelaySchedule(n) == [k \in 1..n |-> BackoffDelay(k - 1)]

StrictlyIncreasing(seq) == \A j, k \in DOMAIN seq : j < k => seq[j] < seq[k]

\* the attempt loop has seen only failures (every request so far was retried)
\* and the delay schedule was applied to each of them
LoopSchedule ==
    (pc = "azure")
       => /\ attempt = Len(reqLog)
          /\ attempt <= AZURE_MAX_RETRIES
          /\ sleeps = DelaySchedule(attempt)
          /\ StrictlyIncreasing(sleeps)

\* a finished client call that saw only failures slept the schedule after
\* each of them, made at most max_retries + 1 requests and, with the budget
\* used up, returned None without raising
FailuresOnly(call) ==
    /\ call.requests <= AZURE_MAX_RETRIES + 1
    /\ call.delays = DelaySchedule(call.requests)
    /\ StrictlyIncreasing(call.delays)
    /\ (call.requests = AZURE_MAX_RETRIES + 1)
          => (~call.clientRaised /\ call.clientResult = None)

KeysKept == \A k \in DOMAIN cache : k \in DOMAIN cache'

\* a request is in flight only for a key the cache does not hold
NoRequestForCachedKey == (pc = "azure") => (lastCall.key \notin DOMAIN cache)

\* C19 as stated: the cache's key set only grows, no request is sent for a
\* key already present, and a stored entry is never replaced by a later call.
C19_Original ==
    /\ []NoRequestForCachedKey
    /\ [][KeysKept /\ \A k \in DOMAIN cache : cache'[k] = cache[k]]_vars

\* C19 as amended: the same, except that the entry of a blank key is written
\* again by every call with a blank address.
C19_CacheGrows ==
    /\ []NoRequestForCachedKey
    /\ [][KeysKept /\ \A k \in DOMAIN cache \ BlankKeys : cache'[k] = cache[k]]_vars

C19_Witness ==
    /\ lastCall.done
    /\ lastCall.n = 2
    /\ lastCall.key \notin BlankKeys
    /\ lastCall.cachedBefore
    /\ lastCall.requests = 0
    /\ lastCall.key \in DOMAIN cache
    /\ cache[lastCall.key] = lastCall.storedBefore

\* C20: processing is sequential per row: the geocoding requests of a row
\* come first, then at most one boundary request, sent only after a
\* successful geocode of that row, then the row is appended; no request for
\* the next row is sent before the row has been appended.
C20_Sequential ==
    /\ (pc \in {"azure", "census"})
          => /\ i >= 1
             /\ Len(results) = i - 1
             /\ lastCall.n = i
             /\ ~lastCall.done
             /\ lastCall.census = 0
    /\ (pc = "azure") => (~lastCall.clientDone /\ lastCall.requests = attempt)
    /\ (pc = "census")
          => /\ lastCall.clientDone
             /\ ~lastCall.clientRaised
             /\ lastCall.requests >= 1
             /\ Truthy(lastCall.clientResult)
             /\ lastCall.clientResult = azResult
    /\ (pc \in {"loop", "done", "crashed"})
          => /\ Len(results) = i
             /\ (i >= 1) => (lastCall.done /\ lastCall.n = i)
    /\ lastCall.census <= 1

C20_Witness ==
    /\ pc = "census"
    /\ i = 2
    /\ Len(results) = 1
    /\ lastCall.n = 2
    /\ lastCall.requests = 2
    /\ lastCall.retried = 1

====
